---- MODULE Spec2Model ----
(***************************************************************************)
(* Model of manual_experiment_tracking.py: a script that trains a random   *)
(* forest for each configured n_estimators value, writes a JSON log and a  *)
(* pickled model per experiment, writes a summary of all records, and then *)
(* re-reads every log_*.json file of the directory into a table.           *)
(*                                                                         *)
(* The artifact directory outlives the process, so the model lets the      *)
(* script be launched several times (with differently sized lists) against *)
(* the same directory.  File names are sequences of characters and file    *)
(* contents are sequences of JSON tokens, so that the name filter and the  *)
(* dump/load round trip are computed and not assumed.                      *)
(***************************************************************************)
EXTENDS Integers, Sequences, FiniteSets, TLC

\* ---------------------------------------------------------------- bounds
\* longest configured hyperparameter list explored (the script's list has 5
\* values; the lists explored are its prefixes)
MaxN == 2
\* number of launches of the script against the same directory
MaxRuns == 2

\* ------------------------------------------------------ program constants
\* the hyperparameter values of the driver loop
ConfiguredValues == <<10, 50, 100, 200, 500>>
\* load_iris() returns 150 labelled samples
NumSamples == 150
\* test_size=0.2, in tenths
TestTenths == 2

\* ------------------------------------------------------------- file names
\* names of the files of experiment_logs/
LogPrefix == <<"l","o","g","_">>
JsonSuffix == <<".","j","s","o","n">>
ModelPrefix == <<"m","o","d","e","l","_">>
PklSuffix == <<".","p","k","l">>
SummaryName ==
    <<"e","x","p","e","r","i","m","e","n","t","_","s","u","m","m","a","r","y",
      ".","j","s","o","n">>

DigitChars == <<"0","1","2","3","4","5","6","7","8","9">>

\* str(n) of a non-negative integer, as the f-strings format it
RECURSIVE Str(_)
Str(n) ==
    IF n < 10 THEN <<DigitChars[n + 1]>>
    ELSE Str(n \div 10) \o <<DigitChars[(n % 10) + 1]>>

\* variant: the log name does not carry the experiment_id
LogNameNoId(id) == LogPrefix \o JsonSuffix
\* f'log_{experiment_id}.json' and f'model_{experiment_id}.pkl'
LogName(id) == LogPrefix \o Str(id) \o JsonSuffix
ModelName(id) == ModelPrefix \o Str(id) \o PklSuffix

\* str.startswith and str.endswith
StartsWith(name, prefix) ==
    /\ Len(name) >= Len(prefix)
    /\ SubSeq(name, 1, Len(prefix)) = prefix
EndsWith(name, suffix) ==
    /\ Len(name) >= Len(suffix)
    /\ SubSeq(name, Len(name) - Len(suffix) + 1, Len(name)) = suffix

\* variant: the filter tests the suffix only
IsLogFileSuffixOnly(file_name) == EndsWith(file_name, JsonSuffix)
\* the filter of the aggregator loop
IsLogFile(file_name) ==
    StartsWith(file_name, LogPrefix) /\ EndsWith(file_name, JsonSuffix)

\* ------------------------------------------------------------------ floats
RECURSIVE GCD(_, _)
GCD(a, b) == IF b = 0 THEN a ELSE GCD(b, a % b)

\* the float a / b (b > 0), kept as the fraction in lowest terms
Frac(a, b) ==
    LET g == GCD(a, b) IN [num |-> a \div g, den |-> b \div g]

\* ------------------------------------------------------------ JSON values
\* Python values that reach json.dump: dict (insertion ordered), list, int,
\* float.  items is the sequence of [key, val] members of a dict or list.
JInt(n) == [t |-> "int", num |-> n, den |-> 1, items |-> <<>>]
JFloat(q) == [t |-> "float", num |-> q.num, den |-> q.den, items |-> <<>>]
JDict(members) == [t |-> "dict", num |-> 0, den |-> 1, items |-> members]
JList(elems) ==
    [t |-> "list", num |-> 0, den |-> 1,
     items |-> [k \in 1..Len(elems) |-> [key |-> "", val |-> elems[k]]]]
Member(k, v) == [key |-> k, val |-> v]

HasKey(d, k) == \E j \in 1..Len(d.items) : d.items[j].key = k
\* d[k] of a dict
Get(d, k) ==
    d.items[CHOOSE j \in 1..Len(d.items) :
                /\ d.items[j].key = k
                /\ \A h \in (j+1)..Len(d.items) : d.items[h].key # k].val

\* ------------------------------------------------------------ JSON text
Tok(kind, str, n, d) == [k |-> kind, s |-> str, num |-> n, den |-> d]
Punct(c) == Tok("punct", c, 0, 1)

\* json.dump: the chunks written to the file, in order
RECURSIVE Encode(_)
RECURSIVE EncodeItems(_, _, _)
\* variant: a float is written as its integer part
EncodeTruncating(v) ==
    CASE v.t = "int" -> <<Tok("int", "", v.num, 1)>>
      [] v.t = "float" -> <<Tok("int", "", v.num \div v.den, 1)>>
      [] v.t = "dict" ->
            <<Punct("{")>> \o EncodeItems(v.items, 1, TRUE) \o <<Punct("}")>>
      [] v.t = "list" ->
            <<Punct("[")>> \o EncodeItems(v.items, 1, FALSE) \o <<Punct("]")>>
EncodeItems(items, from, isDict) ==
    IF from > Len(items) THEN <<>>
    ELSE (IF from > 1 THEN <<Punct(",")>> ELSE <<>>)
         \o (IF isDict
             THEN <<Tok("str", items[from].key, 0, 1), Punct(":")>>
             ELSE <<>>)
         \o Encode(items[from].val)
         \o EncodeItems(items, from + 1, isDict)
Encode(v) ==
    CASE v.t = "int" -> <<Tok("int", "", v.num, 1)>>
      [] v.t = "float" -> <<Tok("float", "", v.num, v.den)>>
      [] v.t = "dict" ->
            <<Punct("{")>> \o EncodeItems(v.items, 1, TRUE) \o <<Punct("}")>>
      [] v.t = "list" ->
            <<Punct("[")>> \o EncodeItems(v.items, 1, FALSE) \o <<Punct("]")>>

\* json.load: a recursive-descent parse of the text of a file.  A parse
\* result is [ok, val, pos]: pos is the position after the value.
Bad == [ok |-> FALSE, val |-> JInt(0), pos |-> 0]
IsPunct(text, pos, c) == pos <= Len(text) /\ text[pos] = Punct(c)

RECURSIVE ParseValue(_, _)
RECURSIVE ParseMembers(_, _, _)
RECURSIVE ParseElems(_, _, _)
ParseMembers(text, pos, acc) ==
    IF pos + 1 <= Len(text) /\ text[pos].k = "str" /\ IsPunct(text, pos + 1, ":")
    THEN LET r == ParseValue(text, pos + 2) IN
         IF ~r.ok THEN Bad
         ELSE LET acc2 == Append(acc, Member(text[pos].s, r.val)) IN
              IF IsPunct(text, r.pos, ",")
              THEN ParseMembers(text, r.pos + 1, acc2)
              ELSE IF IsPunct(text, r.pos, "}")
                   THEN [ok |-> TRUE, val |-> JDict(acc2), pos |-> r.pos + 1]
                   ELSE Bad
    ELSE Bad
ParseElems(text, pos, acc) ==
    LET r == ParseValue(text, pos) IN
    IF ~r.ok THEN Bad
    ELSE LET acc2 == Append(acc, r.val) IN
         IF IsPunct(text, r.pos, ",")
         THEN ParseElems(text, r.pos + 1, acc2)
         ELSE IF IsPunct(text, r.pos, "]")
              THEN [ok |-> TRUE, val |-> JList(acc2), pos |-> r.pos + 1]
              ELSE Bad
ParseValue(text, pos) ==
    IF pos > Len(text) THEN Bad
    ELSE CASE text[pos].k = "int" ->
                [ok |-> TRUE, val |-> JInt(text[pos].num), pos |-> pos + 1]
           [] text[pos].k = "float" ->
                [ok |-> TRUE,
                 val |-> JFloat([num |-> text[pos].num, den |-> text[pos].den]),
                 pos |-> pos + 1]
           [] text[pos] = Punct("{") ->
                IF IsPunct(text, pos + 1, "}")
                THEN [ok |-> TRUE, val |-> JDict(<<>>), pos |-> pos + 2]
                ELSE ParseMembers(text, pos + 1, <<>>)
           [] text[pos] = Punct("[") ->
                IF IsPunct(text, pos + 1, "]")
                THEN [ok |-> TRUE, val |-> JList(<<>>), pos |-> pos + 2]
                ELSE ParseElems(text, pos + 1, <<>>)
           [] OTHER -> Bad

\* json.load succeeds when the whole text is one value
Decode(text) ==
    LET r == ParseValue(text, 1) IN
    IF r.ok /\ r.pos = Len(text) + 1 THEN r ELSE Bad
Parses(text) == Decode(text).ok
Loaded(text) == Decode(text).val

\* ------------------------------------------------------- external library
\* train_test_split(test_size=0.2): n_test = ceil(0.2 * n_samples), the rest
\* is the training part
TestCount(n_samples) == (n_samples * TestTenths + 9) \div 10

\* The split and the forest are random and unseeded: the number of correctly
\* classified test samples is anything in 0..n_test.  The outcomes explored
\* are half and all of the test samples.
HitCounts(test_count) == {test_count \div 2, test_count}

\* variant: the number of correct samples, not normalised
ScoreOfCount(hits, test_count) == Frac(hits, 1)
\* model.score: the fraction of test samples the model classifies correctly
ScoreOf(hits, n_test) == Frac(hits, n_test)

\* joblib.dump: an opaque serialisation of the fitted model
Pickle(m) == <<Tok("pkl", "", m.n_estimators, m.hits)>>

\* the configured lists explored: the prefixes of the script's list that
\* have at most MaxN values (the script's own list is the prefix of length 5)
Configs ==
    LET L == Len(ConfiguredValues) IN
    {SubSeq(ConfiguredValues, 1, len) : len \in 0..(IF MaxN < L THEN MaxN ELSE L)}

\* ------------------------------------------------------------------ state
VARIABLES
    pc,              \* position of the running process, "off" before a launch
    run,             \* number of launches so far
    config,          \* the list the driver loop of this launch enumerates
    dir_exists,      \* whether experiment_logs/ exists
    dir,             \* the files of experiment_logs/: name -> text
    i,               \* loop variable of the driver loop (-1: not yet bound)
    n_estimators,    \* loop variable / argument of run_experiment
    experiment_id,   \* argument of run_experiment
    n_test,          \* size of the test part of the split
    model,           \* the fitted classifier
    accuracy,        \* model.score(X_test, y_test)
    log_data,        \* the record built by run_experiment
    experiments,     \* the list of returned records
    todo,            \* names of os.listdir not yet visited by the loop
    experiment_logs, \* the records loaded by the aggregator
    df,              \* the rows of the DataFrame
    failed_at,       \* position at which an exception ended the process
    found,           \* history: what this launch found in the directory
    trace,           \* history: the storage events of this launch, in order
    wrote            \* history: names of the files this launch finished writing

vars == <<pc, run, config, dir_exists, dir, i, n_estimators, experiment_id,
          n_test, model, accuracy, log_data, experiments, todo,
          experiment_logs, df, failed_at, found, trace, wrote>>

locals == <<n_test, model, accuracy, log_data>>
aggregate == <<todo, experiment_logs, df>>
history == <<found, wrote>>

NoModel == [n_estimators |-> 0, hits |-> 0]
NoFloat == [num |-> 0, den |-> 1]
NoRecord == JDict(<<>>)
EmptyDir == [name \in {} |-> <<>>]

\* dir with the text of one file replaced (the file is created if absent)
WithFile(d, name, text) ==
    [f \in DOMAIN d \cup {name} |-> IF f = name THEN text ELSE d[f]]

Event(e, id) == [e |-> e, id |-> id]

\* a name that starts with log_ and ends with .json
NamedLikeLog(f) ==
    /\ Len(f) >= 5
    /\ f[1] = "l" /\ f[2] = "o" /\ f[3] = "g" /\ f[4] = "_"
    /\ f[Len(f) - 4] = "." /\ f[Len(f) - 3] = "j" /\ f[Len(f) - 2] = "s"
    /\ f[Len(f) - 1] = "o" /\ f[Len(f)] = "n"
\* a name that starts with model_ and ends with .pkl
NamedLikeModel(f) ==
    /\ Len(f) >= 6
    /\ f[1] = "m" /\ f[2] = "o" /\ f[3] = "d" /\ f[4] = "e" /\ f[5] = "l"
    /\ f[6] = "_"
    /\ f[Len(f) - 3] = "." /\ f[Len(f) - 2] = "p" /\ f[Len(f) - 1] = "k"
    /\ f[Len(f)] = "l"
LogsIn(d) == {f \in DOMAIN d : NamedLikeLog(f)}
ModelsIn(d) == {f \in DOMAIN d : NamedLikeModel(f)}
ArtifactNames(n) ==
    {LogName(k) : k \in 1..n} \cup {ModelName(k) : k \in 1..n} \cup {SummaryName}

\* the directory d holds exactly the artifacts of a finished run over n values
IsCompleteRun(d, n) ==
    /\ DOMAIN d = ArtifactNames(n)
    /\ \A k \in 1..n : Parses(d[LogName(k)]) /\ d[ModelName(k)] # <<>>
    /\ Parses(d[SummaryName])
    /\ Len(Loaded(d[SummaryName]).items) = n

\* what a launch records of the directory it finds: the number of files, the
\* number of files named like a log, and whether the files are exactly those
\* of a finished run
Survey(d) ==
    [files |-> Cardinality(DOMAIN d),
     logs |-> Cardinality(LogsIn(d)),
     complete |-> IsCompleteRun(d, Cardinality(LogsIn(d)))]

Init ==
    /\ pc = "off"
    /\ run = 0
    /\ config = <<>>
    /\ dir_exists = FALSE
    /\ dir = EmptyDir
    /\ i = -1
    /\ n_estimators = 0
    /\ experiment_id = 0
    /\ n_test = 0
    /\ model = NoModel
    /\ accuracy = NoFloat
    /\ log_data = NoRecord
    /\ experiments = <<>>
    /\ todo = {}
    /\ experiment_logs = <<>>
    /\ df = <<>>
    /\ failed_at = "none"
    /\ found = Survey(EmptyDir)
    /\ trace = <<>>
    /\ wrote = {}

\* ----------------------------------------------------------------- actions
\* The script is started (again): a fresh process with the configured list
\* cfg; only the directory survives from earlier launches.
Launch(cfg) ==
    /\ pc \in {"off", "done", "crashed"}
    /\ run < MaxRuns
    /\ run' = run + 1
    /\ config' = cfg
    /\ pc' = "mkdir"
    /\ i' = -1
    /\ n_estimators' = 0
    /\ experiment_id' = 0
    /\ n_test' = 0
    /\ model' = NoModel
    /\ accuracy' = NoFloat
    /\ log_data' = NoRecord
    /\ experiments' = <<>>
    /\ todo' = {}
    /\ experiment_logs' = <<>>
    /\ df' = <<>>
    /\ failed_at' = "none"
    /\ found' = Survey(dir)
    /\ trace' = <<>>
    /\ wrote' = {}
    /\ UNCHANGED <<dir_exists, dir>>

\* lines 13-15: create the directory if it does not exist
MakeDir ==
    /\ pc = "mkdir"
    /\ dir_exists' = TRUE
    /\ pc' = "init"
    /\ UNCHANGED <<run, config, dir, i, n_estimators, experiment_id, locals,
                   experiments, aggregate, failed_at, history, trace>>

\* line 48: experiments = []
DriverInit ==
    /\ pc = "init"
    /\ experiments' = <<>>
    /\ pc' = "loop"
    /\ UNCHANGED <<run, config, dir_exists, dir, i, n_estimators,
                   experiment_id, locals, aggregate, failed_at, history,
                   trace>>

\* lines 49-50: the next (i, n_estimators) of enumerate and the call
\* run_experiment(n_estimators, experiment_id=i+1), or the end of the loop
\* variant: the identifier is the 0-based index
LoopNextZeroBased ==
    /\ pc = "loop"
    /\ i + 1 < Len(config)
    /\ i' = i + 1
    /\ n_estimators' = config[i' + 1]
    /\ experiment_id' = i'
    /\ pc' = "train"
    /\ UNCHANGED <<run, config, dir_exists, dir, locals, experiments,
                   aggregate, failed_at, history, trace>>

LoopNext ==
    /\ pc = "loop"
    /\ i + 1 < Len(config)
    /\ i' = i + 1
    /\ n_estimators' = config[i' + 1]
    /\ experiment_id' = i' + 1
    /\ pc' = "train"
    /\ UNCHANGED <<run, config, dir_exists, dir, locals, experiments,
                   aggregate, failed_at, history, trace>>

\* variant: the aggregator runs before the summary is written
LoopExitSkipSummary ==
    /\ pc = "loop"
    /\ ~(i + 1 < Len(config))
    /\ pc' = "listdir"
    /\ UNCHANGED <<run, config, dir_exists, dir, i, n_estimators,
                   experiment_id, locals, experiments, aggregate, failed_at,
                   history, trace>>

LoopExit ==
    /\ pc = "loop"
    /\ ~(i + 1 < Len(config))
    /\ pc' = "open_summary"
    /\ UNCHANGED <<run, config, dir_exists, dir, i, n_estimators,
                   experiment_id, locals, experiments, aggregate, failed_at,
                   history, trace>>

\* lines 20-25: load the data set, split it 80/20 and fit a forest of
\* n_estimators trees on the training part
Train ==
    /\ pc = "train"
    /\ n_test' = TestCount(NumSamples)
    /\ \E hits \in HitCounts(n_test') :
          model' = [n_estimators |-> n_estimators, hits |-> hits]
    /\ pc' = "evaluate"
    /\ UNCHANGED <<run, config, dir_exists, dir, i, n_estimators,
                   experiment_id, accuracy, log_data, experiments,
                   aggregate, failed_at, history, trace>>

\* lines 32-36: the log_data dict
MakeRecord(id, n, acc) ==
    JDict(<<Member("experiment_id", JInt(id)),
            Member("parameters", JDict(<<Member("n_estimators", JInt(n))>>)),
            Member("metrics", JDict(<<Member("accuracy", JFloat(acc))>>))>>)

\* lines 28-36: the accuracy on the test part, and the record
Evaluate ==
    /\ pc = "evaluate"
    /\ accuracy' = ScoreOf(model.hits, n_test)
    /\ log_data' = MakeRecord(experiment_id, n_estimators, accuracy')
    /\ pc' = "open_log"
    /\ UNCHANGED <<run, config, dir_exists, dir, i, n_estimators,
                   experiment_id, n_test, model, experiments,
                   aggregate, failed_at, history, trace>>

\* variant: the log is opened in append mode
OpenLogAppend ==
    /\ pc = "open_log"
    /\ dir_exists
    /\ dir' = WithFile(dir, LogName(experiment_id),
                       IF LogName(experiment_id) \in DOMAIN dir
                       THEN dir[LogName(experiment_id)] ELSE <<>>)
    /\ pc' = "dump_log"
    /\ UNCHANGED <<run, config, dir_exists, i, n_estimators, experiment_id,
                   locals, experiments, aggregate, failed_at, history, trace>>

\* line 39: open(..., 'w') creates or truncates log_<id>.json
OpenLog ==
    /\ pc = "open_log"
    /\ dir_exists
    /\ dir' = WithFile(dir, LogName(experiment_id), <<>>)
    /\ pc' = "dump_log"
    /\ UNCHANGED <<run, config, dir_exists, i, n_estimators, experiment_id,
                   locals, experiments, aggregate, failed_at, history, trace>>

\* line 40: json.dump(log_data, f) writes after what open() left, and the
\* file is closed
DumpLog ==
    /\ pc = "dump_log"
    /\ dir' = WithFile(dir, LogName(experiment_id),
                       dir[LogName(experiment_id)] \o Encode(log_data))
    /\ wrote' = wrote \cup {LogName(experiment_id)}
    /\ trace' = Append(trace, Event("log", experiment_id))
    /\ pc' = "dump_model"
    /\ UNCHANGED <<run, config, dir_exists, i, n_estimators, experiment_id,
                   locals, experiments, aggregate, failed_at, found>>

\* line 43: joblib.dump(model, model_<id>.pkl)
DumpModel ==
    /\ pc = "dump_model"
    /\ dir' = WithFile(dir, ModelName(experiment_id), Pickle(model))
    /\ wrote' = wrote \cup {ModelName(experiment_id)}
    /\ trace' = Append(trace, Event("model", experiment_id))
    /\ pc' = "return"
    /\ UNCHANGED <<run, config, dir_exists, i, n_estimators, experiment_id,
                   locals, experiments, aggregate, failed_at, found>>

\* lines 45, 50-51: return log_data; experiments.append(log_data)
ReturnAndAppend ==
    /\ pc = "return"
    /\ experiments' = Append(experiments, log_data)
    /\ trace' = Append(trace, Event("append", experiment_id))
    /\ n_test' = 0
    /\ model' = NoModel
    /\ accuracy' = NoFloat
    /\ log_data' = NoRecord
    /\ pc' = "loop"
    /\ UNCHANGED <<run, config, dir_exists, dir, i, n_estimators,
                   experiment_id, aggregate, failed_at, history>>

\* line 54: open(experiment_summary.json, 'w')
OpenSummary ==
    /\ pc = "open_summary"
    /\ dir_exists
    /\ dir' = WithFile(dir, SummaryName, <<>>)
    /\ pc' = "dump_summary"
    /\ UNCHANGED <<run, config, dir_exists, i, n_estimators, experiment_id,
                   locals, experiments, aggregate, failed_at, history, trace>>

\* variant: an empty list is not dumped
DumpSummaryIfAny ==
    /\ pc = "dump_summary"
    /\ dir' = WithFile(dir, SummaryName,
                       IF experiments = <<>> THEN dir[SummaryName]
                       ELSE dir[SummaryName] \o Encode(JList(experiments)))
    /\ wrote' = wrote \cup {SummaryName}
    /\ trace' = Append(trace, Event("summary", 0))
    /\ pc' = "listdir"
    /\ UNCHANGED <<run, config, dir_exists, i, n_estimators, experiment_id,
                   locals, experiments, aggregate, failed_at, found>>

\* line 55: json.dump(experiments, f) writes after what open() left
DumpSummary ==
    /\ pc = "dump_summary"
    /\ dir' = WithFile(dir, SummaryName,
                       dir[SummaryName] \o Encode(JList(experiments)))
    /\ wrote' = wrote \cup {SummaryName}
    /\ trace' = Append(trace, Event("summary", 0))
    /\ pc' = "listdir"
    /\ UNCHANGED <<run, config, dir_exists, i, n_estimators, experiment_id,
                   locals, experiments, aggregate, failed_at, found>>

\* variant: only the files this launch wrote are listed
ListDirOwnFiles ==
    /\ pc = "listdir"
    /\ experiment_logs' = <<>>
    /\ todo' = wrote
    /\ trace' = Append(trace, Event("listdir", 0))
    /\ pc' = "scan"
    /\ UNCHANGED <<run, config, dir_exists, dir, i, n_estimators,
                   experiment_id, locals, experiments, df, failed_at,
                   history>>

\* lines 60-61: experiment_logs = []; os.listdir(experiment_dir)
ListDir ==
    /\ pc = "listdir"
    /\ experiment_logs' = <<>>
    /\ todo' = DOMAIN dir
    /\ trace' = Append(trace, Event("listdir", 0))
    /\ pc' = "scan"
    /\ UNCHANGED <<run, config, dir_exists, dir, i, n_estimators,
                   experiment_id, locals, experiments, df, failed_at,
                   history>>

\* the orders in which a listing can present the names that pass the filter
\* (the names that do not pass are skipped wherever they stand)
Orders(names) ==
    LET logs == {f \in names : IsLogFile(f)} IN
    {o \in [1..Cardinality(logs) -> logs] :
        \A a, b \in 1..Cardinality(logs) : a # b => o[a] # o[b]}

\* position of the first file of the order that json.load rejects, or
\* Len(order) + 1
RECURSIVE FirstBad(_, _, _)
FirstBad(d, order, from) ==
    IF from > Len(order) \/ ~Parses(d[order[from]]) THEN from
    ELSE FirstBad(d, order, from + 1)

\* one row of the DataFrame (lines 67-71)
Row(log) ==
    [experiment_id |-> Get(log, "experiment_id").num,
     n_estimators |-> Get(Get(log, "parameters"), "n_estimators").num,
     accuracy |-> [num |-> Get(Get(log, "metrics"), "accuracy").num,
                   den |-> Get(Get(log, "metrics"), "accuracy").den]]

HasFields(log) ==
    /\ log.t = "dict"
    /\ HasKey(log, "experiment_id")
    /\ HasKey(log, "parameters")
    /\ HasKey(log, "metrics")
    /\ Get(log, "parameters").t = "dict"
    /\ HasKey(Get(log, "parameters"), "n_estimators")
    /\ Get(log, "metrics").t = "dict"
    /\ HasKey(Get(log, "metrics"), "accuracy")

\* lines 61-71: the loop over the listing, in the order the file system
\* gave it: every name that passes the filter is opened and json.load-ed, up
\* to the first text json.load raises JSONDecodeError on; then the rows of
\* the DataFrame are built from the loaded records
Aggregate ==
    /\ pc = "scan"
    /\ \E order \in Orders(todo) :
          LET stop == FirstBad(dir, order, 1)
              logs == [j \in 1..(stop - 1) |-> Loaded(dir[order[j]])]
          IN
          /\ experiment_logs' = logs
          /\ IF stop <= Len(order)
             THEN \* JSONDecodeError
                  /\ todo' = todo \ {order[j] : j \in 1..stop}
                  /\ pc' = "crashed"
                  /\ failed_at' = "scan"
                  /\ UNCHANGED df
             ELSE /\ todo' = {}
                  /\ IF \A j \in 1..Len(logs) : HasFields(logs[j])
                     THEN /\ df' = [j \in 1..Len(logs) |-> Row(logs[j])]
                          /\ pc' = "plot"
                          /\ UNCHANGED failed_at
                     ELSE \* KeyError
                          /\ pc' = "crashed"
                          /\ failed_at' = "frame"
                          /\ UNCHANGED df
    /\ UNCHANGED <<run, config, dir_exists, dir, i, n_estimators,
                   experiment_id, locals, experiments, history, trace>>

\* lines 74-80: draw and show the chart; the script ends
Plot ==
    /\ pc = "plot"
    /\ pc' = "done"
    /\ UNCHANGED <<run, config, dir_exists, dir, i, n_estimators,
                   experiment_id, locals, experiments, aggregate, failed_at,
                   history, trace>>

\* An uncaught exception ends the process.  Nothing is cleaned up.
Crash(at) ==
    /\ pc' = "crashed"
    /\ failed_at' = at
    /\ UNCHANGED <<run, config, dir_exists, i, n_estimators, experiment_id,
                   locals, experiments, aggregate, history, trace>>

\* variant: the files the launch wrote are removed
FailComputeCleanup ==
    /\ pc \in {"train", "evaluate", "open_log", "open_summary"}
    /\ Crash(pc)
    /\ dir' = [f \in DOMAIN dir \ wrote |-> dir[f]]

\* load_iris, train_test_split, fit, score, or open() raises
FailCompute ==
    /\ pc \in {"train", "evaluate", "open_log", "open_summary"}
    /\ Crash(pc)
    /\ UNCHANGED dir

\* a write of json.dump fails (disk full).  The text is far smaller than the
\* buffer of the file object, so nothing reaches the file before it is
\* closed: the file stays as open() left it, empty.
FailDump ==
    /\ pc \in {"dump_log", "dump_summary"}
    /\ Crash(pc)
    /\ UNCHANGED dir

\* joblib.dump fails: the model file is not created, or is left truncated
FailDumpModel ==
    /\ pc = "dump_model"
    /\ \/ dir' = dir
       \/ dir' = WithFile(dir, ModelName(experiment_id), <<>>)
    /\ Crash(pc)

\* lines 74-80 raise: seaborn finds no column n_estimators in a frame built
\* from no rows, or the chart cannot be shown
FailPlot ==
    /\ pc = "plot"
    /\ Crash(pc)
    /\ UNCHANGED dir

Next ==
    \/ \E cfg \in Configs : Launch(cfg)
    \/ MakeDir
    \/ DriverInit
    \/ LoopNext
    \/ LoopExit
    \/ Train
    \/ Evaluate
    \/ OpenLog
    \/ DumpLog
    \/ DumpModel
    \/ ReturnAndAppend
    \/ OpenSummary
    \/ DumpSummary
    \/ ListDir
    \/ Aggregate
    \/ Plot
    \/ FailCompute
    \/ FailDump
    \/ FailDumpModel
    \/ FailPlot

Spec == Init /\ [][Next]_vars

\* ------------------------------------------------------------- properties
\* where the process is, or was when an exception ended it
Pos == IF pc = "crashed" THEN failed_at ELSE pc
InRunner ==
    Pos \in {"train", "evaluate", "open_log", "dump_log", "dump_model", "return"}
LoopOver ==
    Pos \in {"open_summary", "dump_summary", "listdir", "scan", "frame",
             "plot", "done"}
SummaryWritten == Pos \in {"listdir", "scan", "frame", "plot", "done"}
Tabled == pc \in {"plot", "done"}

\* the text of the model file of the experiment that returned record r: a
\* forest of r's n_estimators trees with r's accuracy on the test part
ModelTextOf(r) ==
    <<Tok("pkl", "", Row(r).n_estimators,
          Row(r).accuracy.num * (TestCount(NumSamples) \div Row(r).accuracy.den))>>

InUnit(q) == q.den > 0 /\ 0 <= q.num /\ q.num <= q.den
IsPrefix(a, b) == Len(a) <= Len(b) /\ a = SubSeq(b, 1, Len(a))

\* C1: the driver loop calls run_experiment once per configured value; the
\* k-th call gets experiment_id k and the k-th configured n_estimators, and
\* the records returned carry exactly these, so that a finished loop has
\* assigned the ids 1..N in configured order.
C1_IdsFollowTheList ==
    /\ InRunner =>
          /\ experiment_id = i + 1
          /\ experiment_id = Len(experiments) + 1
          /\ experiment_id \in 1..Len(config)
          /\ n_estimators = config[experiment_id]
    /\ Len(experiments) <= Len(config)
    /\ \A k \in 1..Len(experiments) :
          /\ Row(experiments[k]).experiment_id = k
          /\ Row(experiments[k]).n_estimators = config[k]
    /\ LoopOver => (Len(experiments) = Len(config) /\ i + 1 = Len(config))

C1_Witness ==
    /\ pc = "done"
    /\ Len(config) >= 2
    /\ Len(experiments) = Len(config)

\* C2: from an empty directory, once the loop is over and the summary is
\* written the directory holds exactly the N logs log_1..log_N, the N models
\* model_1..model_N and the summary, whose array has N entries in loop order,
\* the k-th with experiment_id k and the k-th configured n_estimators.
C2_CleanRunArtifacts ==
    (found.files = 0 /\ SummaryWritten) =>
        LET summary == Loaded(dir[SummaryName]) IN
        /\ Cardinality(LogsIn(dir)) = Len(config)
        /\ LogsIn(dir) = {LogName(k) : k \in 1..Len(config)}
        /\ Cardinality(ModelsIn(dir)) = Len(config)
        /\ ModelsIn(dir) = {ModelName(k) : k \in 1..Len(config)}
        /\ DOMAIN dir = LogsIn(dir) \cup ModelsIn(dir) \cup {SummaryName}
        /\ Parses(dir[SummaryName])
        /\ summary.t = "list"
        /\ Len(summary.items) = Len(config)
        /\ \A k \in 1..Len(config) :
              /\ Row(summary.items[k].val).experiment_id = k
              /\ Row(summary.items[k].val).n_estimators = config[k]
              /\ summary.items[k].val = experiments[k]

C2_Witness ==
    /\ pc = "done"
    /\ found.files = 0
    /\ Len(config) = 2
    /\ Cardinality(DOMAIN dir) = 5

\* C3: every record run_experiment wrote to log_<id>.json is read back by
\* json.load with the experiment_id, n_estimators and accuracy that were
\* written and returned; the aggregator's loaded records include them.
C3_LogRoundTrip ==
    /\ \A k \in 1..Len(experiments) :
          /\ LogName(k) \in wrote
          /\ Parses(dir[LogName(k)])
          /\ Row(Loaded(dir[LogName(k)])) = Row(experiments[k])
          /\ Tabled =>
                \E j \in 1..Len(experiment_logs) :
                    Row(experiment_logs[j]) = Row(experiments[k])
    /\ Pos \in {"dump_model", "return"} =>
          /\ Parses(dir[LogName(experiment_id)])
          /\ Row(Loaded(dir[LogName(experiment_id)])) =
                [experiment_id |-> experiment_id,
                 n_estimators |-> n_estimators,
                 accuracy |-> accuracy]

C3_Witness ==
    /\ Tabled
    /\ Len(experiments) >= 1
    /\ \E j \in 1..Len(experiment_logs) :
          /\ Row(experiment_logs[j]) = Row(experiments[1])
          /\ Row(experiment_logs[j]).accuracy.den > 1

\* C4: when the script finds the artifacts of a finished run over N1 values
\* and runs over N2 < N1 values, the logs log_(N2+1)..log_N1 stay in the
\* directory with their text at every step, the table has a row for each of
\* them and N1 rows in all, and the summary has N2 entries.
C4_AtTable ==
    (Tabled /\ found.complete /\ Len(config) < found.logs) =>
        /\ \A k \in (Len(config) + 1)..found.logs :
              /\ LogName(k) \in DOMAIN dir
              /\ Parses(dir[LogName(k)])
              /\ Row(Loaded(dir[LogName(k)])).experiment_id = k
              /\ \E j \in 1..Len(df) : df[j] = Row(Loaded(dir[LogName(k)]))
        /\ Len(df) = found.logs
        /\ Parses(dir[SummaryName])
        /\ Len(Loaded(dir[SummaryName]).items) = Len(config)

C4_StaleLogsKept ==
    \A f \in LogsIn(dir) \ {LogName(k) : k \in 1..Len(config')} :
        f \in DOMAIN dir' /\ dir'[f] = dir[f]

C4_StaleLogsAreTabled ==
    /\ []C4_AtTable
    /\ [][C4_StaleLogsKept]_vars

C4_Witness ==
    /\ pc = "done"
    /\ found.complete
    /\ found.logs = 2
    /\ Len(config) = 1
    /\ Len(df) = 2

\* C5: with an empty configured list run_experiment is never called, the
\* launch writes no log and no model (every other file is as it was found),
\* and the summary it writes is the empty array.
C5_AtEmptyList ==
    (run >= 1 /\ Len(config) = 0) =>
        /\ ~InRunner
        /\ i = -1
        /\ experiments = <<>>
        /\ wrote \subseteq {SummaryName}
        /\ \A e \in 1..Len(trace) : trace[e].e \in {"summary", "listdir"}
        /\ Cardinality(LogsIn(dir)) = found.logs
        /\ SummaryWritten =>
              /\ Parses(dir[SummaryName])
              /\ Loaded(dir[SummaryName]).t = "list"
              /\ Loaded(dir[SummaryName]).items = <<>>

\* a step of a launch over the empty list creates or changes no file but
\* the summary
C5_OnlySummaryTouched ==
    Len(config') = 0 =>
        \A f \in DOMAIN dir' \ {SummaryName} :
            f \in DOMAIN dir /\ dir'[f] = dir[f]

C5_EmptyList ==
    /\ []C5_AtEmptyList
    /\ [][C5_OnlySummaryTouched]_vars

C5_Witness ==
    /\ pc = "done"
    /\ run >= 1
    /\ Len(config) = 0
    /\ dir[SummaryName] = <<Punct("["), Punct("]")>>

\* C6: the accuracy of every record run_experiment builds or returns lies in
\* [0,1]: it is hits / n_test for the n_test > 0 samples of the 20% test part
\* and 0 <= hits <= n_test.
C6_AccuracyInUnit ==
    /\ \A k \in 1..Len(experiments) : InUnit(Row(experiments[k]).accuracy)
    /\ Pos \in {"open_log", "dump_log", "dump_model", "return"} =>
          /\ InUnit(accuracy)
          /\ Row(log_data).accuracy = accuracy
          /\ n_test > 0
          /\ 10 * n_test >= TestTenths * NumSamples
          /\ 10 * (n_test - 1) < TestTenths * NumSamples
          /\ 0 <= model.hits /\ model.hits <= n_test
          /\ accuracy.num * n_test = model.hits * accuracy.den

C6_Witness ==
    /\ pc = "return"
    /\ accuracy.num > 0
    /\ accuracy.num < accuracy.den

\* C7: when experiment k fails, the logs and models of experiments 1..k-1
\* are on disk as written, nothing that was there is removed, no later
\* experiment has run, no summary is written, the aggregator has not run,
\* and the process takes no further step (only a new launch follows).
FailedInExperiment ==
    /\ pc = "crashed"
    /\ failed_at \in {"train", "evaluate", "open_log", "dump_log", "dump_model"}

C7_AtFailure ==
    FailedInExperiment =>
        /\ experiment_id = i + 1
        /\ Len(experiments) = experiment_id - 1
        /\ \A j \in 1..(experiment_id - 1) :
              /\ LogName(j) \in DOMAIN dir
              /\ dir[LogName(j)] = Encode(experiments[j])
              /\ ModelName(j) \in DOMAIN dir
              /\ dir[ModelName(j)] = ModelTextOf(experiments[j])
        /\ \A e \in 1..Len(trace) :
              /\ trace[e].e \in {"log", "model", "append"}
              /\ trace[e].id <= experiment_id
        /\ SummaryName \notin wrote
        /\ experiment_logs = <<>> /\ df = <<>> /\ todo = {}

\* a step removes no file, touches the summary only after the loop, touches
\* no log or model but those of the experiment under way, and the only step
\* after a failure is a new launch
C7_Step ==
    /\ DOMAIN dir \subseteq DOMAIN dir'
    /\ \A f \in DOMAIN dir' :
          (f \notin DOMAIN dir \/ dir'[f] # dir[f]) =>
              \/ f = SummaryName /\ pc \in {"open_summary", "dump_summary"}
              \/ f \in {LogName(experiment_id), ModelName(experiment_id)}
                 /\ pc \in {"open_log", "dump_log", "dump_model"}
    /\ pc = "crashed" => (pc' = "mkdir" /\ dir' = dir)

C7_FailureHalts ==
    /\ []C7_AtFailure
    /\ [][C7_Step]_vars

C7_Witness ==
    /\ FailedInExperiment
    /\ experiment_id = 2
    /\ failed_at = "dump_model"
    /\ found.complete /\ found.logs = 2

\* C8: the table has exactly one row per file of the directory whose name
\* starts with log_ and ends with .json, carrying that file's experiment_id,
\* n_estimators and accuracy; the summary and the models give no row, and
\* building the rows never fails.
C8_OneRowPerLogFile ==
    /\ failed_at # "frame"
    /\ Tabled =>
          LET logs == LogsIn(dir) IN
          /\ Len(df) = Cardinality(logs)
          /\ \E o \in [1..Len(df) -> logs] :
                /\ \A a, b \in 1..Len(df) : a # b => o[a] # o[b]
                /\ \A j \in 1..Len(df) : df[j] = Row(Loaded(dir[o[j]]))
          /\ SummaryName \in DOMAIN dir /\ SummaryName \notin logs
          /\ ModelsIn(dir) \cap logs = {}
          /\ Cardinality(DOMAIN dir) > Len(df)

C8_Witness ==
    /\ pc = "done"
    /\ Len(config) = 1
    /\ Len(df) = 2
    /\ ModelsIn(dir) # {}

\* C9: once a launch over N values has written its summary, log_<id>.json and
\* model_<id>.pkl hold this launch's record and model for every id in 1..N,
\* the summary holds this launch's list, and every other file the launch
\* found is still there with the text it had.
C9_AfterSummary ==
    SummaryWritten =>
        /\ \A id \in 1..Len(config) :
              /\ dir[LogName(id)] = Encode(experiments[id])
              /\ dir[ModelName(id)] = ModelTextOf(experiments[id])
        /\ dir[SummaryName] = Encode(JList(experiments))
        /\ Cardinality(LogsIn(dir)) >= found.logs
        /\ Cardinality(DOMAIN dir) >= found.files

\* no step removes a file, and no step changes a file that is not an
\* artifact of the ids 1..N of the launch under way
C9_OthersKept ==
    \A f \in DOMAIN dir :
        /\ f \in DOMAIN dir'
        /\ f \notin ArtifactNames(Len(config')) => dir'[f] = dir[f]

C9_OverwriteOwnKeepOthers ==
    /\ []C9_AfterSummary
    /\ [][C9_OthersKept]_vars

C9_Witness ==
    /\ pc = "done"
    /\ Len(config) = 1
    /\ found.complete /\ found.logs = 2
    /\ Row(Loaded(dir[LogName(2)])).n_estimators = ConfiguredValues[2]
    /\ Row(Loaded(dir[LogName(1)])).accuracy = Row(experiments[1]).accuracy

\* the storage events of a launch over n values, in the order of the script
RECURSIVE ExpectedTrace(_)
ExpectedTrace(n) ==
    IF n = 0 THEN <<>>
    ELSE ExpectedTrace(n - 1)
         \o <<Event("log", n), Event("model", n), Event("append", n)>>

LastEventIs(ev) == Len(trace) > 0 /\ trace[Len(trace)] = ev

\* C10: the events of a launch are totally ordered: log k, model k, append k
\* for k = 1..N in turn, then the summary, then the one listing of the
\* directory; the table built from that listing has the rows of all N
\* experiments of the launch.
C10_ScriptOrder ==
    /\ IsPrefix(trace, ExpectedTrace(Len(config))
                       \o <<Event("summary", 0), Event("listdir", 0)>>)
    /\ Pos \in {"dump_model"} => LastEventIs(Event("log", experiment_id))
    /\ Pos \in {"return"} => LastEventIs(Event("model", experiment_id))
    /\ Pos \in {"listdir"} => LastEventIs(Event("summary", 0))
    /\ Pos \in {"scan", "frame", "plot", "done"} =>
          LastEventIs(Event("listdir", 0))
    /\ Pos \in {"loop", "train", "evaluate", "open_log", "dump_log",
                "open_summary", "dump_summary"} =>
          trace = ExpectedTrace(Len(experiments))
    /\ Tabled =>
          \A k \in 1..Len(config) :
              \E j \in 1..Len(df) : df[j] = Row(experiments[k])

C10_Witness ==
    /\ pc = "done"
    /\ Len(config) = 2
    /\ Len(trace) = 8

====
